---------------------------- MODULE Spec2Model ----------------------------
(***************************************************************************)
(* A model of mir_eval/sonify.py: clicks, time_frequency, _fast_synthesize, *)
(* pitch_contour and chroma.                                                *)
(*                                                                          *)
(* Numbers are exact.  A time value t stands for t / (TimeRes * fs)         *)
(* seconds, so t / TimeRes is its position in samples and a length of L     *)
(* samples lasts L * TimeRes time units.  A frequency F stands for          *)
(* F / FreqScale Hz.  A gram magnitude g stands for g * threshold /         *)
(* Threshold.  The 2*pi-periodic `function` the caller passes is            *)
(*     lambda x: np.sign(np.round(np.sin(x), 9))                            *)
(* the sign of the sine, 0 where the sine is 0: at a float multiple of pi   *)
(* np.sin is of the order of 1e-16, not 0, and the rounding takes that to   *)
(* 0.  It is evaluated on a phase given as a fraction of a turn.            *)
(***************************************************************************)
EXTENDS Integers, Sequences, FiniteSets

VARIABLES pc, args, mem, ret

vars == <<pc, args, mem, ret>>

---------------------------------------------------------------------------
(* Bounds of the model and units of its numbers.                           *)

MaxLen == 3
MaxTime == 4
MaxClicks == 3
MaxCycles == 2

TimeRes == 2
FreqScale == 1000
Threshold == 2
None == -1
NaN == -999999

SampleRates == {8}

---------------------------------------------------------------------------
(* Arithmetic helpers.                                                     *)

Max(a, b) == IF a >= b THEN a ELSE b
Min(a, b) == IF a <= b THEN a ELSE b
Abs(a) == IF a >= 0 THEN a ELSE 0 - a

Range(s) == {s[k] : k \in DOMAIN s}

SetMax(S) == CHOOSE x \in S : \A y \in S : x >= y
SetMin(S) == CHOOSE x \in S : \A y \in S : x <= y

RECURSIVE Pow10(_)
Pow10(n) == IF n <= 0 THEN 1 ELSE 10 * Pow10(n - 1)

RECURSIVE SumTo(_, _, _)
SumTo(f, lo, hi) == IF lo > hi THEN 0 ELSE f[hi] + SumTo(f, lo, hi - 1)

RECURSIVE Product(_)
Product(s) == IF s = <<>> THEN 1 ELSE Head(s) * Product(Tail(s))

(* Python int(): truncation toward zero of num / den, den > 0.             *)
Trunc(num, den) == IF num >= 0 THEN num \div den ELSE 0 - ((0 - num) \div den)

(* numpy rint: num / den rounded to the nearest integer, ties to even.     *)
RoundHalfEven(num, den) ==
    LET q == num \div den
        r == num % den
    IN  IF 2 * r < den THEN q
        ELSE IF 2 * r > den THEN q + 1
        ELSE IF q % 2 = 0 THEN q ELSE q + 1

Zeros(n) == [i \in 1..n |-> 0]

(* The periodic function passed in, np.sign(np.round(np.sin(x), 9)), at    *)
(* the phase x = 2 pi num / den: 0 at whole and half turns, 1 in the first *)
(* half of a turn and -1 in the second.                                    *)
function(num, den) ==
    LET r == num % den
    IN  IF r = 0 \/ 2 * r = den THEN 0 ELSE IF 2 * r < den THEN 1 ELSE 0 - 1


---------------------------------------------------------------------------
(* Arrays.  mem holds the caller's arrays by parameter name.  A local name *)
(* refers to one of them or to an array made during the call (Fresh).      *)

Fresh == "fresh"

Aliased(ref) == ref

(* The array an allocating numpy call (np.pad, np.clip, np.maximum,        *)
(* np.tile, astype, boolean indexing) returns: never its argument.         *)
Allocated(ref) == Fresh

(* Writing value into the array ref names.                                 *)
Store(m, ref, value) ==
    IF ref \in DOMAIN m THEN [m EXCEPT ![ref] = value] ELSE m

---------------------------------------------------------------------------
(* _fast_synthesize (lines 215-244).                                       *)

(* np.round(frequency, n_dec), in units of 10^-n_dec Hz.                   *)
Quantize(frequency, n_dec) == RoundHalfEven(frequency * Pow10(n_dec), FreqScale)

(* The phase of sample k of short_signal, 2 pi k frequency / fs, as the    *)
(* fraction PhaseNum / PhaseDen of a turn.                                 *)
PhaseNum(k, frequency, n_dec) == k * Quantize(frequency, n_dec)
PhaseDen(n_dec, fs) == Pow10(n_dec) * fs

n_samples_fs(n_dec, fs) == fs

(* n_samples = int(10.0**n_dec * fs)                                       *)
n_samples(n_dec, fs) == Pow10(n_dec) * fs

(* n_repeats = int(np.ceil(length / float(short_signal.shape[0])))         *)
n_repeats(n_dec, fs, length) ==
    (length + n_samples(n_dec, fs) - 1) \div n_samples(n_dec, fs)

(* long_signal.flat: element i (from 0) of the strided view is element     *)
(* i mod n_samples of short_signal; the view holds n_repeats * n_samples.  *)
FlatSize(n_dec, fs, length) == n_repeats(n_dec, fs, length) * n_samples(n_dec, fs)
FlatIndex(i, n_dec, fs) == i % n_samples(n_dec, fs)
FlatPhase(i, frequency, n_dec, fs) ==
    PhaseNum(FlatIndex(i, n_dec, fs), frequency, n_dec)
FlatAt(i, frequency, n_dec, fs) ==
    function(FlatPhase(i, frequency, n_dec, fs), PhaseDen(n_dec, fs))

fast_synthesize(a) ==
    [status |-> "returned",
     n_samples |-> n_samples(a.n_dec, a.fs),
     size |-> FlatSize(a.n_dec, a.fs, a.length),
     phase |-> [i \in 1..a.length |-> FlatPhase(i - 1, a.frequency, a.n_dec, a.fs)],
     wave |-> [i \in 1..a.length |-> FlatAt(i - 1, a.frequency, a.n_dec, a.fs)]]

---------------------------------------------------------------------------
(* time_frequency (lines 64-212).                                          *)

Rows(gram) == Len(gram)
Cols(gram) == Len(gram[1])

(* lines 111-115: timestamps to consecutive intervals.                     *)
Convert(times) ==
    IF times.ndim = 1
    THEN [k \in 1..(Len(times.v) - 1) |-> <<times.v[k], times.v[k + 1]>>]
    ELSE times.v

Entries(iv) == {iv[k][1] : k \in DOMAIN iv} \cup {iv[k][2] : k \in DOMAIN iv}
TimesMax(iv) == SetMax(Entries(iv))
TimesMin(iv) == SetMin(Entries(iv))

(* line 119: length = int(np.max(times) * fs)                              *)
DefaultLength(iv) == Trunc(TimesMax(iv), TimeRes)

(* line 121: last_time_in_secs, in time units.                             *)
Duration(length) == length * TimeRes

(* lines 123-124: the trailing interval of converted timestamps.           *)
NeedsTrailing(times, iv, gram) == times.ndim = 1 /\ Len(iv) # Cols(gram)
WithTrailing(iv, dur) == Append(iv, <<TimesMax(iv), dur>>)

(* lines 109-134: the intervals and the length, or the error raised.       *)
Prologue(a) ==
    LET iv0 == Convert(a.times)
    IN  IF a.length = None /\ iv0 = <<>>
        THEN [exc |-> "ValueError", line |-> 119]
        ELSE
        LET length == IF a.length = None THEN DefaultLength(iv0) ELSE a.length
            dur == Duration(length)
        IN  IF NeedsTrailing(a.times, iv0, a.gram) /\ iv0 = <<>>
            THEN [exc |-> "ValueError", line |-> 124]
            ELSE
            LET iv1 == IF NeedsTrailing(a.times, iv0, a.gram)
                       THEN WithTrailing(iv0, dur) ELSE iv0
            IN  IF Len(iv1) # Cols(a.gram)
                THEN [exc |-> "ValueError", line |-> 127]
                ELSE IF Len(a.frequencies) # Rows(a.gram)
                THEN [exc |-> "ValueError", line |-> 132]
                ELSE [exc |-> "", line |-> 0, times |-> iv1, length |-> length]

(* lines 136-152: silence padding of the intervals and of gram.            *)
PadFront(iv) == TimesMin(iv) > 0
PadBack(iv, dur) == TimesMax(iv) < dur

Stacked(iv, dur) ==
    (IF PadFront(iv) THEN << <<0, TimesMin(iv)>> >> ELSE <<>>)
    \o iv
    \o (IF PadBack(iv, dur) THEN << <<TimesMax(iv), dur>> >> ELSE <<>>)

PaddedRowAtEnd(row, iv, dur) ==
    row
    \o (IF PadFront(iv) THEN <<0>> ELSE <<>>)
    \o (IF PadBack(iv, dur) THEN <<0>> ELSE <<>>)

PaddedRow(row, iv, dur) ==
    (IF PadFront(iv) THEN <<0>> ELSE <<>>)
    \o row
    \o (IF PadBack(iv, dur) THEN <<0>> ELSE <<>>)

Padded(gram, iv, dur) == [n \in 1..Len(gram) |-> PaddedRow(gram[n], iv, dur)]

(* line 155: the intervals that overlap [0, last_time_in_secs].            *)
Overlaps(interval, dur) == interval[2] >= 0 /\ interval[1] <= dur

Idx(times, dur) ==
    SelectSeq([k \in 1..Len(times) |-> k], LAMBDA k : Overlaps(times[k], dur))

Take(s, idx) == [j \in 1..Len(idx) |-> s[idx[j]]]

(* line 157: np.clip(times[idx], 0, last_time_in_secs)                     *)
Clip(x, dur) == Min(Max(x, 0), dur)
Clipped(times, dur) ==
    [k \in 1..Len(times) |-> <<Clip(times[k][1], dur), Clip(times[k][2], dur)>>]

(* line 162: np.maximum(gram, 0)                                           *)
NonNegative(gram) ==
    [n \in 1..Len(gram) |-> [m \in 1..Len(gram[n]) |-> Max(gram[n][m], 0)]]

(* line 172: the rows whose largest magnitude reaches the threshold.       *)
FreqKeep(gram, threshold) ==
    SelectSeq([n \in 1..Len(gram) |-> n],
              LAMBDA n : SetMax(Range(gram[n])) >= threshold)

(* lines 136-162: the surviving intervals, clipped, and their columns.      *)
Normalized(gram, iv, dur) ==
    LET stacked == Stacked(iv, dur)
        idx == Idx(stacked, dur)
        padded == Padded(gram, iv, dur)
    IN  [times |-> Clipped(Take(stacked, idx), dur),
         gram |-> NonNegative([n \in 1..Len(gram) |-> Take(padded[n], idx)])]

InterpNext(x, y, fill, x_new) ==
    IF x_new < x[1] THEN fill[1]
    ELSE IF x_new > x[Len(x)] THEN fill[2]
    ELSE y[Min(Len(x), 1 + Cardinality({k \in 1..Len(x) : x[k] < x_new}))]

(* scipy interp1d(kind="previous", bounds_error=False, fill_value=fill) at *)
(* x_new: y at the last x <= x_new, fill[1] below x[1], fill[2] above the  *)
(* last x.  x is non-decreasing here, so interp1d's stable sort keeps it.  *)
InterpPrevious(x, y, fill, x_new) ==
    IF x_new < x[1] THEN fill[1]
    ELSE IF x_new > x[Len(x)] THEN fill[2]
    ELSE y[Cardinality({k \in 1..Len(x) : x[k] <= x_new})]

(* lines 179-186: sample i sits at x_new = i, the starts at times[:,0]*fs. *)
Interpolated(times, row, length) ==
    [i \in 1..length |->
        InterpPrevious([k \in 1..Len(times) |-> times[k][1]], row,
                       <<row[1], row[Len(row)]>>, (i - 1) * TimeRes)]

(* line 193: np.tile(gram[:, 0], (1, length)), one row of N * length.      *)
Tiled(gram, length) ==
    << [j \in 1..(Len(gram) * length) |-> gram[((j - 1) % Len(gram)) + 1][1]] >>

(* lines 177-193: signal.                                                  *)
Envelope(times, gram, length) ==
    IF Len(times) > 1
    THEN [n \in 1..Len(gram) |-> Interpolated(times, gram[n], length)]
    ELSE Tiled(gram, length)

(* line 200: period = 2 * int(fs / frequency)                              *)
Period(frequency, fs) == 2 * Trunc(fs * FreqScale, frequency)

(* line 202: scipy.signal.convolve(signal, np.ones(period), mode="same"):  *)
(* len(signal) values of the full convolution from offset (period - 1)//2. *)
(* The division by period is kept as the denominator of the row.           *)
Convolved(signal, period) ==
    [i \in 1..Len(signal) |->
        LET k == (i - 1) + ((period - 1) \div 2)
        IN  SumTo([j \in 1..Len(signal) |-> signal[j]],
                  Max(1, k - period + 2), Min(Len(signal), k + 1))]

(* lines 195-205: the exception the body raises for the n-th kept row: no  *)
(* row n in signal, or a product that does not fit output.                 *)
RowFault(signal, n, length) ==
    IF n > Len(signal) THEN [exc |-> "IndexError", line |-> 202]
    ELSE IF Len(signal[n]) # length THEN [exc |-> "ValueError", line |-> 205]
    ELSE [exc |-> "", line |-> 0]

(* lines 195-205: output, in units of 1 / (product of the periods).        *)
Mixed(signal, frequencies, fs, n_dec, length) ==
    LET periods == [n \in 1..Len(frequencies) |-> Period(frequencies[n], fs)]
        scale == Product(periods)
    IN  [i \in 1..length |->
            SumTo([n \in 1..Len(frequencies) |->
                      FlatAt(i - 1, frequencies[n], n_dec, fs)
                      * Convolved(signal[n], periods[n])[i]
                      * (scale \div periods[n])],
                  1, Len(frequencies))]

NormSigned(output) == SetMax({output[i] : i \in DOMAIN output})

(* line 208: norm = np.abs(output).max()                                   *)
Norm(output) == SetMax({Abs(output[i]) : i \in DOMAIN output})

(* The outcome of a call and the locals it had computed by then.           *)
Raised(exc, line) ==
    [status |-> "raised", exc |-> exc, line |-> line, out |-> <<>>, den |-> 1,
     length |-> 0, times |-> <<>>, gram |-> <<>>, keep |-> <<>>,
     signal |-> <<>>, mix |-> <<>>, ref |-> Fresh]

RaisedInLoop(exc, line, length, times, gram, keep, signal) ==
    [status |-> "raised", exc |-> exc, line |-> line, out |-> <<>>, den |-> 1,
     length |-> length, times |-> times, gram |-> gram, keep |-> keep,
     signal |-> signal, mix |-> <<>>, ref |-> Fresh]

Returned(out, den, length, times, gram, keep, signal, mix) ==
    [status |-> "returned", exc |-> "", line |-> 0, out |-> out, den |-> den,
     length |-> length, times |-> times, gram |-> gram, keep |-> keep,
     signal |-> signal, mix |-> mix, ref |-> Fresh]

(* lines 164-212, after the shape checks.  The result is out[i] / den.     *)
Synthesis(a, iv, length) ==
    LET norm == Normalized(a.gram, iv, Duration(length))
        times == norm.times
    IN  IF Len(times) = 0
        THEN Returned(Zeros(length), 1, length, times, norm.gram, <<>>, <<>>,
                      Zeros(length))
        ELSE
        LET keep == FreqKeep(norm.gram, a.threshold)
            gram == Take(norm.gram, keep)
            frequencies == Take(a.frequencies, keep)
            signal == Envelope(times, gram, length)
            faults == SelectSeq([n \in 1..Len(keep) |-> RowFault(signal, n, length)],
                                LAMBDA f : f.exc # "")
        IN  IF faults # <<>>
            THEN RaisedInLoop(faults[1].exc, faults[1].line, length, times,
                              norm.gram, keep, signal)
            ELSE IF length = 0
            THEN RaisedInLoop("ValueError", 208, length, times, norm.gram, keep,
                              signal)
            ELSE
            LET mix == Mixed(signal, frequencies, a.fs, a.n_dec, length)
            IN  IF Norm(mix) >= 1
                THEN Returned(mix, Norm(mix), length, times, norm.gram, keep,
                              signal, mix)
                ELSE Returned(mix, 1, length, times, norm.gram, keep, signal, mix)

time_frequency(a) ==
    LET pro == Prologue(a)
    IN  IF pro.exc # "" THEN Raised(pro.exc, pro.line)
        ELSE Synthesis(a, pro.times, pro.length)

(* The arrays time_frequency writes, in order, when called with the arrays *)
(* refs names and ending as r: gram is re-bound by np.pad (151), the       *)
(* column filter (156) and np.maximum (162), gram and frequencies by the   *)
(* row filter (174-175); output is np.zeros (165), added to in place (205) *)
(* and divided in place (210).  times is re-bound to np.hstack / np.vstack *)
(* results, which are new arrays.                                          *)
TimeFrequencyMem(m, refs, a, r) ==
    IF r.status = "raised" /\ r.line <= 134 THEN m
    ELSE
    LET pro == Prologue(a)
        dur == Duration(pro.length)
        padded == Padded(a.gram, pro.times, dur)
        idx == Idx(Stacked(pro.times, dur), dur)
        g151 == Allocated(refs.gram)
        g156 == Allocated(g151)
        g162 == Allocated(g156)
        g174 == Allocated(g162)
        f175 == Allocated(refs.frequencies)
        m1 == Store(m, g151, padded)
        m2 == Store(m1, g156, [n \in 1..Len(padded) |-> Take(padded[n], idx)])
        m3 == Store(m2, g162, r.gram)
    IN  IF r.times = <<>> THEN m3
        ELSE
        LET m4 == Store(m3, g174, Take(r.gram, r.keep))
            m5 == Store(m4, f175, Take(a.frequencies, r.keep))
        IN  IF r.status = "raised" THEN m5
            ELSE Store(Store(m5, r.ref, r.mix), r.ref, r.out)

---------------------------------------------------------------------------
(* pitch_contour (lines 247-317).                                          *)

(* line 285: np.maximum(frequencies, 0.0); a NaN stays a NaN.              *)
Squashed(frequencies) ==
    [k \in 1..Len(frequencies) |->
        IF frequencies[k] = NaN THEN NaN ELSE Max(frequencies[k], 0)]

(* line 287: np.nan_to_num                                                 *)
NanToNum(frequencies) ==
    [k \in 1..Len(frequencies) |-> IF frequencies[k] = NaN THEN 0 ELSE frequencies[k]]

(* The product of the gaps between the knots: interpolated values are kept *)
(* as integers in units of 1 / Weight.                                     *)
Weight(x) == Product([k \in 1..(Len(x) - 1) |-> x[k + 1] - x[k]])

(* scipy interp1d(kind="linear", fill_value=0.0, bounds_error=False) at    *)
(* x_new, times Weight(x): 0 outside [x[1], x[last]], and inside the value *)
(* on the line through the knots around x_new.                             *)
InterpLinear(x, y, x_new) ==
    IF x_new < x[1] \/ x_new > x[Len(x)] THEN 0
    ELSE
    LET below == Cardinality({k \in 1..Len(x) : x[k] < x_new})
        hi == Min(Max(below, 1), Len(x) - 1) + 1
        lo == hi - 1
    IN  y[lo] * Weight(x)
        + (y[hi] - y[lo]) * (x_new - x[lo]) * (Weight(x) \div (x[hi] - x[lo]))

(* lines 289-300: f_est, in units of 2 pi / (Weight * FreqScale * fs).     *)
f_est(a, length) ==
    [i \in 1..length |->
        InterpLinear(a.times, NanToNum(Squashed(a.frequencies)), (i - 1) * TimeRes)]

(* lines 302-314: a_est, in units of 1 / AmpDen.                           *)
a_est(a, length) ==
    IF a.amplitudes.none THEN [i \in 1..length |-> 1]
    ELSE [i \in 1..length |-> InterpLinear(a.times, a.amplitudes.v, (i - 1) * TimeRes)]

AmpDen(a) == IF a.amplitudes.none THEN 1 ELSE Weight(a.times)

(* line 317: a_est * function(np.cumsum(f_est))                            *)
Sonified(a, length) ==
    [i \in 1..length |->
        a_est(a, length)[i]
        * function(SumTo(f_est(a, length), 1, i), Weight(a.times) * FreqScale * a.fs)]

pitch_contour(a) ==
    LET length == IF a.length = None THEN Trunc(SetMax(Range(a.times)), TimeRes)
                  ELSE a.length
    IN  [status |-> "returned", exc |-> "", line |-> 0,
         out |-> Sonified(a, length), den |-> AmpDen(a), length |-> length,
         ref |-> Fresh]

(* The arrays pitch_contour writes: frequencies is re-bound to the result  *)
(* of np.maximum (285), and np.nan_to_num(copy=False) (287) writes into    *)
(* that array.                                                             *)
PitchContourMem(m, a) ==
    LET f285 == Allocated("frequencies")
        m1 == Store(m, f285, Squashed(a.frequencies))
    IN  Store(m1, f285, NanToNum(Squashed(a.frequencies)))

---------------------------------------------------------------------------
(* chroma (lines 320-364).  Weighted magnitudes are in units of            *)
(* 1 / ShepardScale, the weights rounded to that unit.                     *)

ShepardScale == 1000

n_octaves == 7

base_note == 24

mean == 72

std == 6

(* line 354: notes = np.arange(12 * n_octaves) + base_note                 *)
notes == [k \in 1..(12 * n_octaves) |-> (k - 1) + base_note]

(* line 355: exp(-(notes - mean)^2 / (2 std^2)), times ShepardScale.       *)
shepard_weight ==
    <<
       0, 0, 0, 0, 0, 0, 0, 0, 0, 0, 0, 0, 0, 0, 0, 0, 0, 0, 0, 0, 0, 0,
       0, 0, 0, 1, 1, 2, 4, 7, 11, 18, 29, 44, 66, 96, 135, 186, 249,
       325, 411, 506, 607, 707, 801, 882, 946, 986, 1000, 986, 946, 882,
       801, 707, 607, 506, 411, 325, 249, 186, 135, 96, 66, 44, 29, 18,
       11, 7, 4, 2, 1, 1, 0, 0, 0, 0, 0, 0, 0, 0, 0, 0, 0, 0
    >>

(* line 363: 440 * 2^((notes - 69) / 12), times FreqScale.                 *)
ShepardFrequencies ==
    <<
       32703, 34648, 36708, 38891, 41203, 43654, 46249, 48999, 51913,
       55000, 58270, 61735, 65406, 69296, 73416, 77782, 82407, 87307,
       92499, 97999, 103826, 110000, 116541, 123471, 130813, 138591,
       146832, 155563, 164814, 174614, 184997, 195998, 207652, 220000,
       233082, 246942, 261626, 277183, 293665, 311127, 329628, 349228,
       369994, 391995, 415305, 440000, 466164, 493883, 523251, 554365,
       587330, 622254, 659255, 698456, 739989, 783991, 830609, 880000,
       932328, 987767, 1046502, 1108731, 1174659, 1244508, 1318510,
       1396913, 1479978, 1567982, 1661219, 1760000, 1864655, 1975533,
       2093005, 2217461, 2349318, 2489016, 2637020, 2793826, 2959955,
       3135963, 3322438, 3520000, 3729310, 3951066
    >>

(* line 357: np.tile(chromagram.T, n_octaves).T, the twelve rows repeated  *)
(* once per octave.                                                        *)
TiledChroma(chromagram) ==
    [r \in 1..(Len(chromagram) * n_octaves) |->
        chromagram[((r - 1) % Len(chromagram)) + 1]]

(* line 361: gram *= shepard_weight.reshape(-1, 1)                         *)
Weighted(gram) ==
    [r \in 1..Len(gram) |->
        [c \in 1..Len(gram[r]) |-> gram[r][c] * shepard_weight[r]]]

(* line 364: the call to time_frequency, n_dec and threshold at their      *)
(* defaults (1 and 0.01).                                                  *)
ShepardCall(a) ==
    [fn |-> "time_frequency",
     gram |-> Weighted(TiledChroma(a.chromagram)),
     frequencies |-> ShepardFrequencies, times |-> a.times, fs |-> a.fs,
     length |-> a.length, n_dec |-> 1, threshold |-> ShepardScale \div 100]

chroma(a) == time_frequency(ShepardCall(a))

(* The arrays chroma writes: gram is the result of np.tile (357), re-bound *)
(* by astype (359) and multiplied in place (361); frequencies is computed  *)
(* at line 363; time_frequency then works on these and on times.           *)
ChromaMem(m, a, r) ==
    LET g357 == Allocated("chromagram")
        g359 == Allocated(g357)
        m1 == Store(m, g357, TiledChroma(a.chromagram))
        m2 == Store(m1, g359, TiledChroma(a.chromagram))
        m3 == Store(m2, g359, Weighted(TiledChroma(a.chromagram)))
    IN  TimeFrequencyMem(m3, [gram |-> g359, frequencies |-> Fresh,
                              times |-> "times"], ShepardCall(a), r)

---------------------------------------------------------------------------
(* clicks (lines 15-61).                                                   *)

(* lines 37-41: for fs <= 10, np.arange(fs * 0.1) is [0] and the default   *)
(* click is the one sample sin(0) * exp(0) = 0.                            *)
DefaultClick(fs) == <<0>>

(* click_signal[start:stop] = values                                       *)
Written(signal, start, values) ==
    [j \in 1..Len(signal) |->
        IF j > start /\ j <= start + Len(values) THEN values[j - start] ELSE signal[j]]

(* lines 49-60: the loop over times, from the k-th time on.                *)
RECURSIVE Placed(_, _, _, _)
Placed(signal, click, times, k) ==
    IF k > Len(times) THEN signal
    ELSE
    LET start == Trunc(times[k], TimeRes)
        end == start + Len(click)
        length == Len(signal)
    IN  IF start >= length THEN signal
        ELSE IF end >= length
        THEN Written(signal, start, SubSeq(click, 1, length - start))
        ELSE Placed(Written(signal, start, click), click, times, k + 1)

clicks(a) ==
    LET click == IF a.click.none THEN DefaultClick(a.fs) ELSE a.click.v
        length == IF a.length = None
                  THEN Trunc(SetMax(Range(a.times)) + (Len(click) + 1) * TimeRes, TimeRes)
                  ELSE a.length
    IN  [status |-> "returned", exc |-> "", line |-> 0,
         out |-> Placed(Zeros(length), click, a.times, 1), den |-> 1,
         length |-> length, click |-> click, ref |-> Fresh]

(* The arrays clicks writes: the default click, made at line 39, is        *)
(* multiplied in place (41); click_signal is np.zeros (47) and receives    *)
(* the clicks (57, 60).  A click passed in is only read.                   *)
ClicksMem(m, a, r) ==
    LET m1 == IF a.click.none THEN Store(m, Fresh, DefaultClick(a.fs)) ELSE m
    IN  Store(m1, r.ref, r.out)

---------------------------------------------------------------------------
(* Inputs of time_frequency.                                               *)

TimeVals == (0 - 1)..MaxTime

Interval == {iv \in TimeVals \X TimeVals : iv[1] <= iv[2]}

(* Interval matrices: non-overlapping, non-decreasing, gaps allowed.       *)
Intervals(m) ==
    IF m = 1 THEN {<<iv>> : iv \in Interval}
    ELSE {p \in Interval \X Interval : p[1][2] <= p[2][1]}

(* Timestamp vectors: increasing.                                          *)
Timestamps(m) ==
    IF m = 1 THEN {<<t>> : t \in TimeVals}
    ELSE IF m = 2 THEN {t \in TimeVals \X TimeVals : t[1] < t[2]}
    ELSE {t \in TimeVals \X TimeVals \X TimeVals : t[1] < t[2] /\ t[2] < t[3]}

TimesOf(m) ==
    {[ndim |-> 2, v |-> v] : v \in Intervals(m)}
    \cup {[ndim |-> 1, v |-> v] : v \in Timestamps(m) \cup Timestamps(m + 1)}

GramVals == {0 - 1, 1, 2}

Grams(n, m) == [1..n -> [1..m -> GramVals]]
Frequencies(n) == IF n = 1 THEN {<<3500>>, <<4500>>} ELSE {<<3500, 4500>>}

Lengths == 0..MaxLen \cup {None}

TFArgs(gram, frequencies, times, fs, length) ==
    [fn |-> "time_frequency", gram |-> gram, frequencies |-> frequencies, times |-> times, fs |-> fs,
     length |-> length, n_dec |-> 1, threshold |-> Threshold]

(* Inputs whose shapes agree.                                              *)
Shaped(a) ==
    \E n \in 1..2, m \in 1..2 :
        \E g \in Grams(n, m), f \in Frequencies(n), t \in TimesOf(m),
           fs \in SampleRates, l \in Lengths :
            a = TFArgs(g, f, t, fs, l)

(* Inputs of any shapes, agreeing or not.                                  *)
Ones(n, m) == [i \in 1..n |-> [j \in 1..m |-> 2]]

AnyShape(a) ==
    \E n \in 1..2, m \in 1..2, f \in Frequencies(1) \cup Frequencies(2),
       fs \in SampleRates :
        \E t \in {[ndim |-> 1, v |-> <<0>>], [ndim |-> 1, v |-> <<0, 1>>],
                  [ndim |-> 1, v |-> <<0, 1, 2>>],
                  [ndim |-> 1, v |-> <<0, 1, 2, 3>>],
                  [ndim |-> 2, v |-> << <<0, 1>> >>],
                  [ndim |-> 2, v |-> << <<0, 1>>, <<1, 2>> >>],
                  [ndim |-> 2, v |-> << <<0, 1>>, <<1, 2>>, <<2, 3>> >>]} :
            a = TFArgs(Ones(n, m), f, t, fs, 2)

---------------------------------------------------------------------------
(* The calls.  pc is "call" before the entry point runs and "done" after;  *)
(* args are the arguments as passed, mem the caller's arrays, ret the      *)
(* outcome.                                                                *)

NoRet == [status |-> "none"]

InitTF ==
    /\ pc = "call"
    /\ (Shaped(args) \/ AnyShape(args))
    /\ mem = [gram |-> args.gram, frequencies |-> args.frequencies,
              times |-> args.times.v]
    /\ ret = NoRet

TFRefs == [gram |-> "gram", frequencies |-> "frequencies", times |-> "times"]

TimeFrequency ==
    /\ pc = "call"
    /\ args.fn = "time_frequency"
    /\ pc' = "done"
    /\ ret' = time_frequency(args)
    /\ mem' = TimeFrequencyMem(mem, TFRefs, args, ret')
    /\ UNCHANGED args

NextTF == TimeFrequency

SpecTF == InitTF /\ [][NextTF]_vars

---------------------------------------------------------------------------
(* Claims about time_frequency.                                            *)

Done == pc = "done"

(* The call got past the argument checks of lines 109-134.                 *)
Checked == Done /\ (ret.status = "returned" \/ ret.line > 134)

(* The number of intervals the shape rule counts: the rows of an interval  *)
(* matrix; for M timestamps M - 1, and one more when that is not the       *)
(* number of columns.                                                      *)
IntervalCount(a) ==
    IF a.times.ndim = 2 THEN Len(a.times.v)
    ELSE IF Len(a.times.v) - 1 # Cols(a.gram) THEN Len(a.times.v)
    ELSE Len(a.times.v) - 1

ShapeValid(a) ==
    /\ Len(a.frequencies) = Rows(a.gram)
    /\ IntervalCount(a) = Cols(a.gram)

(* C1: for every shape-valid input and requested length L (already for    *)
(* L >= 1), time_frequency returns, without raising, a buffer of exactly L *)
(* samples.                                                                *)
C1_ReturnsRequestedLength ==
    (Checked /\ ShapeValid(args) /\ args.length >= 1)
        => (ret.status = "returned" /\ Len(ret.out) = args.length)

(* C2: the argument checks raise exactly when the shapes disagree: an      *)
(* error for every input whose frequency or interval count differs from    *)
(* gram's, and none when both counts agree.                                *)
C2_ShapeMismatchIffShapesDiffer ==
    Done => ((ret.status = "raised" /\ ret.line <= 134) <=> ~ShapeValid(args))

(* C3: every returned sample lies in [-1, 1]; if a row is kept by the      *)
(* threshold then max(|output|) = 1, otherwise the output is all zero.     *)
InRange == \A i \in DOMAIN ret.out : Abs(ret.out[i]) <= ret.den
PeakIsOne == \E i \in DOMAIN ret.out : Abs(ret.out[i]) = ret.den
AllZero == \A i \in DOMAIN ret.out : ret.out[i] = 0

C3_PeakLaw ==
    (Done /\ ret.status = "returned")
        => /\ InRange
           /\ ret.keep # <<>> => PeakIsOne
           /\ ret.keep = <<>> => AllZero

(* C3 as amended: every returned sample lies in [-1, 1]; if the mix of the *)
(* kept rows has a non-zero sample then max(|output|) = 1, otherwise (no   *)
(* row kept, or kept rows whose mix vanishes on every sample) the output   *)
(* is all zero.                                                            *)
C3_PeakLawOfMix ==
    (Done /\ ret.status = "returned")
        => /\ InRange
           /\ (\E i \in DOMAIN ret.mix : ret.mix[i] # 0) => PeakIsOne
           /\ (\A i \in DOMAIN ret.mix : ret.mix[i] = 0) => AllZero
           /\ ret.keep = <<>> => AllZero

C3_Witness ==
    /\ Done /\ ret.status = "returned"
    /\ Len(ret.keep) = 2
    /\ ret.den > 1
    /\ \E i \in DOMAIN ret.out : ret.out[i] # 0 /\ Abs(ret.out[i]) < ret.den
    /\ \E i \in DOMAIN ret.out : ret.out[i] = 0 - ret.den

(* The intervals the normalisation starts from: those given, or those      *)
(* derived from the timestamps.                                            *)
Given == Prologue(args).times
Dur == Duration(ret.length)

Survives(m) == Overlaps(Given[m], Dur)

(* Where the m-th given interval sits among the surviving ones: after the  *)
(* leading silence, if one was added, and the given survivors before it.   *)
Position(m) ==
    (IF TimesMin(Given) > 0 THEN 1 ELSE 0)
    + Cardinality({j \in 1..m : Survives(j)})

Bounded ==
    \A k \in DOMAIN ret.times :
        /\ 0 <= ret.times[k][1] /\ ret.times[k][1] <= Dur
        /\ 0 <= ret.times[k][2] /\ ret.times[k][2] <= Dur

Paired ==
    /\ \A n \in DOMAIN ret.gram : Len(ret.gram[n]) = Len(ret.times)
    /\ Len(ret.gram) = Rows(args.gram)
    /\ \A m \in DOMAIN Given :
          Survives(m) =>
              /\ Position(m) \in DOMAIN ret.times
              /\ ret.times[Position(m)]
                     = <<Clip(Given[m][1], Dur), Clip(Given[m][2], Dur)>>
              /\ \A n \in DOMAIN ret.gram :
                     ret.gram[n][Position(m)] = Max(args.gram[n][m], 0)

Covering ==
    ret.times # <<>> =>
        /\ SetMin({ret.times[k][1] : k \in DOMAIN ret.times}) = 0
        /\ SetMax({ret.times[k][2] : k \in DOMAIN ret.times}) = Dur

(* C7: for a non-overlapping, non-decreasing interval set (gaps allowed),  *)
(* after padding, filtering and clipping (a) every bound lies in           *)
(* [0, duration], (b) intervals and gram columns stay paired, and (c) the  *)
(* surviving intervals start at 0 and end at duration.                     *)
C7_NormalizedCovers ==
    (Checked /\ args.times.ndim = 2) => (Bounded /\ Paired /\ Covering)

(* x lies strictly inside a gap between two consecutive given intervals.   *)
InGap(x) ==
    \E k \in 1..(Len(Given) - 1) : Given[k][2] < x /\ x < Given[k + 1][1]

(* C7 as amended: (a) and (b) as stated; (c) the surviving intervals start *)
(* at 0 unless 0 lies strictly inside a gap between two consecutive        *)
(* intervals, and end at duration unless duration lies inside such a gap;  *)
(* in those cases they start after 0, or end before duration.              *)
C7_NormalizedCoversOutsideGaps ==
    (Checked /\ args.times.ndim = 2) =>
        /\ Bounded
        /\ Paired
        /\ ret.times # <<>> =>
            /\ (SetMin({ret.times[k][1] : k \in DOMAIN ret.times}) = 0) <=> ~InGap(0)
            /\ (SetMax({ret.times[k][2] : k \in DOMAIN ret.times}) = Dur) <=> ~InGap(Dur)

C7_Witness ==
    /\ Checked /\ args.times.ndim = 2
    /\ Len(Given) = 2 /\ Given[1][2] < Given[2][1]
    /\ TimesMin(Given) > 0
    /\ \E m \in DOMAIN Given : ~Survives(m)
    /\ \E m \in DOMAIN Given : Survives(m) /\ Given[m][2] > Dur
    /\ Len(ret.times) = 2

(* C8: with two or more surviving intervals, the envelope of every kept    *)
(* row at sample i is the magnitude of the latest interval whose start*fs  *)
(* is <= i, and the first interval's magnitude before any start.           *)
Latest(i) ==
    SetMax({k \in DOMAIN ret.times : ret.times[k][1] <= i * TimeRes})

C8_EnvelopeHoldsLatest ==
    (Checked /\ Len(ret.times) >= 2) =>
        /\ Len(ret.signal) = Len(ret.keep)
        /\ \A n \in DOMAIN ret.keep :
              /\ Len(ret.signal[n]) = ret.length
              /\ \A i \in 0..(ret.length - 1) :
                    ret.signal[n][i + 1] =
                        IF \A k \in DOMAIN ret.times : ret.times[k][1] > i * TimeRes
                        THEN ret.gram[ret.keep[n]][1]
                        ELSE ret.gram[ret.keep[n]][Latest(i)]

C8_Witness ==
    /\ Checked /\ Len(ret.times) >= 2 /\ ret.length >= 2
    /\ ret.times[1][1] > 0
    /\ \E n \in DOMAIN ret.keep :
          /\ ret.signal[n][1] # ret.signal[n][2]
          /\ ret.signal[n][1] > 0

(* C9: when exactly one interval remains, the envelope of every kept row n *)
(* has exactly L samples, each equal to the row's own magnitude.           *)
C9_SingleIntervalRows ==
    (Checked /\ Len(ret.times) = 1 /\ ret.keep # <<>>) =>
        /\ Len(ret.signal) = Len(ret.keep)
        /\ \A n \in DOMAIN ret.signal :
              /\ Len(ret.signal[n]) = ret.length
              /\ \A i \in DOMAIN ret.signal[n] :
                    ret.signal[n][i] = ret.gram[ret.keep[n]][1]

---------------------------------------------------------------------------
(* pitch_contour and clicks as calls.                                      *)

PCFreqVals == {NaN, 0 - 1000, 3500, 4500}
AmpVals == {1, 2}

InitPC ==
    /\ pc = "call"
    /\ \E k \in 2..3 :
        \E t \in Timestamps(k), f \in [1..k -> PCFreqVals],
           amp \in {[none |-> TRUE, v |-> <<>>]}
                   \cup {[none |-> FALSE, v |-> v] : v \in [1..k -> AmpVals]},
           fs \in SampleRates, l \in Lengths :
            args = [fn |-> "pitch_contour",
                    times |-> t, frequencies |-> f, fs |-> fs, amplitudes |-> amp,
                    length |-> l, kind |-> "linear"]
    /\ mem = [times |-> args.times, frequencies |-> args.frequencies,
              amplitudes |-> args.amplitudes.v]
    /\ ret = NoRet

PitchContour ==
    /\ pc = "call"
    /\ args.fn = "pitch_contour"
    /\ pc' = "done"
    /\ ret' = pitch_contour(args)
    /\ mem' = PitchContourMem(mem, args)
    /\ UNCHANGED args

SpecPC == InitPC /\ [][PitchContour]_vars

ConstantTone ==
    /\ \A k \in DOMAIN args.frequencies :
          args.frequencies[k] = args.frequencies[1] /\ args.frequencies[k] > 0
    /\ args.amplitudes.none \/ \A k \in DOMAIN args.amplitudes.v : args.amplitudes.v[k] = 1

InSpan(i) ==
    args.times[1] <= i * TimeRes /\ i * TimeRes <= args.times[Len(args.times)]

(* C4, outside the span: a contour of constant frequency f > 0 and         *)
(* amplitude 1 over [t0, t1] (amplitudes omitted or all ones) is 0 at      *)
(* every sample before t0*fs and at every sample after t1*fs.              *)
C4_SilentOutsideSpan ==
    (Done /\ ConstantTone) =>
        \A i \in 0..(ret.length - 1) : ~InSpan(i) => ret.out[i + 1] = 0

(* C4, inside the span: the sample at index i is function(2 pi f i / fs).  *)
C4_PhaseInsideSpan ==
    (Done /\ ConstantTone) =>
        \A i \in 0..(ret.length - 1) :
            InSpan(i) => ret.out[i + 1]
                             = ret.den * function(i * args.frequencies[1],
                                                  FreqScale * args.fs)

---------------------------------------------------------------------------
(* clicks as a call.                                                       *)

ClickTimes == 0..MaxTime
Kernels == {<<1, 2>>, <<3, 4, 5>>}

InitClicks ==
    /\ pc = "call"
    /\ \E k \in 1..MaxClicks :
        \E t \in [1..k -> ClickTimes],
           click \in {[none |-> TRUE, v |-> <<>>]}
                     \cup {[none |-> FALSE, v |-> v] : v \in Kernels},
           fs \in SampleRates, l \in Lengths :
            args = [fn |-> "clicks",
                    times |-> t, fs |-> fs, click |-> click, length |-> l]
    /\ mem = [times |-> args.times, click |-> args.click.v]
    /\ ret = NoRet

Clicks ==
    /\ pc = "call"
    /\ args.fn = "clicks"
    /\ pc' = "done"
    /\ ret' = clicks(args)
    /\ mem' = ClicksMem(mem, args, ret')
    /\ UNCHANGED args

SpecClicks == InitClicks /\ [][Clicks]_vars

(* The listed clicks that start inside the buffer and cover sample j.      *)
Start(k) == Trunc(args.times[k], TimeRes)
Covers(j) ==
    {k \in DOMAIN args.times :
        Start(k) < ret.length /\ Start(k) <= j /\ j < Start(k) + Len(ret.click)}

(* C5: for click times in any order, every time t with int(t*fs) < length  *)
(* has the kernel written from sample int(t*fs), cut at the end of the     *)
(* buffer, later-listed clicks overwriting earlier ones; times with        *)
(* int(t*fs) >= length add nothing; uncovered samples are zero.            *)
C5_ClickAtEachTime ==
    Done =>
        /\ Len(ret.out) = ret.length
        /\ \A j \in 0..(ret.length - 1) :
              ret.out[j + 1] =
                  IF Covers(j) = {} THEN 0
                  ELSE ret.click[j - Start(SetMax(Covers(j))) + 1]

---------------------------------------------------------------------------
(* _fast_synthesize as a call.                                             *)

SynthFreqs == {50, 150, 250, 500, 1250, 1500, 1550, 2500, 3330, 3500, 4500, 10000}

InitSynth ==
    /\ pc = "call"
    /\ \E f \in SynthFreqs, n_dec \in 0..2, fs \in 1..2, c \in 0..MaxCycles,
          r \in 0..1 :
            args = [fn |-> "_fast_synthesize",
                    frequency |-> f, n_dec |-> n_dec, fs |-> fs,
                    length |-> c * n_samples(n_dec, fs) + r]
    /\ mem = <<>>
    /\ ret = NoRet

FastSynthesize ==
    /\ pc = "call"
    /\ args.fn = "_fast_synthesize"
    /\ pc' = "done"
    /\ ret' = fast_synthesize(args)
    /\ UNCHANGED <<args, mem>>

SpecSynth == InitSynth /\ [][FastSynthesize]_vars

(* C10: n_samples = 10^n_dec * fs samples span a whole number of periods   *)
(* of the quantized frequency, so sample i of the tiled buffer has the     *)
(* phase of the untiled signal at i, modulo one period, for every i, and   *)
(* the buffer holds at least L samples.                                    *)
C10_TilingKeepsPhase ==
    Done =>
        /\ PhaseNum(ret.n_samples, args.frequency, args.n_dec)
               % PhaseDen(args.n_dec, args.fs) = 0
        /\ \A i \in 0..(args.length - 1) :
              ret.phase[i + 1] % PhaseDen(args.n_dec, args.fs)
                  = PhaseNum(i, args.frequency, args.n_dec)
                        % PhaseDen(args.n_dec, args.fs)
        /\ ret.size >= args.length

C10_Witness ==
    /\ Done
    /\ args.length > ret.n_samples
    /\ args.n_dec = 1
    /\ Quantize(args.frequency, 1) % 10 # 0
    /\ \E i \in 1..args.length : ret.wave[i] = 0 - 1

---------------------------------------------------------------------------
(* chroma as a call: one pitch class sounding, at an audio sampling rate.  *)

ChromaRates == {22050}
PitchClasses == {9}
ChromaVals == {0 - 1, 1, 2}

Chromagrams(m) ==
    {[r \in 1..12 |-> [c \in 1..m |-> IF r = k + 1 THEN v[c] ELSE 0]] :
        k \in PitchClasses, v \in [1..m -> ChromaVals]}

InitChroma ==
    /\ pc = "call"
    /\ \E m \in 1..2 :
        \E c \in Chromagrams(m), t \in TimesOf(m), fs \in ChromaRates,
           l \in Lengths :
            args = [fn |-> "chroma", chromagram |-> c, times |-> t, fs |-> fs,
                    length |-> l]
    /\ mem = [chromagram |-> args.chromagram, times |-> args.times.v]
    /\ ret = NoRet

Chroma ==
    /\ pc = "call"
    /\ args.fn = "chroma"
    /\ pc' = "done"
    /\ ret' = chroma(args)
    /\ mem' = ChromaMem(mem, args, ret')
    /\ UNCHANGED args

---------------------------------------------------------------------------
(* The four entry points, one call each.                                   *)

Init == InitTF \/ InitPC \/ InitClicks \/ InitChroma

Next == TimeFrequency \/ PitchContour \/ Clicks \/ Chroma

Spec == Init /\ [][Next]_vars

(* The arrays the caller passed, as they were at the call.                 *)
Passed(a) ==
    CASE a.fn = "time_frequency" ->
            [gram |-> a.gram, frequencies |-> a.frequencies, times |-> a.times.v]
      [] a.fn = "pitch_contour" ->
            [times |-> a.times, frequencies |-> a.frequencies,
             amplitudes |-> a.amplitudes.v]
      [] a.fn = "clicks" -> [times |-> a.times, click |-> a.click.v]
      [] a.fn = "chroma" -> [chromagram |-> a.chromagram, times |-> a.times.v]

(* C6: after time_frequency, pitch_contour, clicks or chroma returns or    *)
(* raises, every array the caller passed holds the values it held at the   *)
(* call, and the returned buffer is none of the caller's arrays.           *)
C6_CallerArraysUnchanged ==
    Done => /\ mem = Passed(args)
            /\ ret.ref \notin DOMAIN mem

C6_Witness ==
    /\ Done
    /\ args.fn = "pitch_contour"
    /\ ret.status = "returned"
    /\ \E i \in DOMAIN args.frequencies : args.frequencies[i] = NaN
    /\ \E i \in DOMAIN args.frequencies :
          args.frequencies[i] # NaN /\ args.frequencies[i] < 0
    /\ \E i \in DOMAIN ret.out : ret.out[i] # 0

=============================================================================
